---------------------------- MODULE Spec2Model ----------------------------
(***************************************************************************)
(* Model of tasks/meta_optimizer.py: the windowing, objective selection    *)
(* and loss selection of MetaOptimizerExplicit and MetaOptimizerImplicit.  *)
(*                                                                         *)
(* A tensor is modelled along its samples axis only, as the sequence of    *)
(* the positions it holds: the input x of S samples is <<0, .., S-1>>, and *)
(* a slice or a gather of it is the sequence of the positions it selects.  *)
(* The aggregated context z is the sequence of its own positions; by the   *)
(* comment at lines 65-67 ("z goes from 0 context to full context")        *)
(* position k of z summarises the first k samples, x[0 .. k-1].            *)
(***************************************************************************)
EXTENDS Integers, Sequences, FiniteSets, TLC

\* Largest samples extent S of a batch.
MaxS == 5
\* Largest configured min_train_samples.
MaxM == 2
\* Largest number of tasks in the dataset log_loss_vs_nsamples walks.
MaxTasks == 3
\* Largest samples extent of that dataset's batches.
DiagMaxS == 2
\* Largest loss of one task at one position.
MaxLoss == 1

VARIABLES
    pc,                 \* "new", "idle", "done" or "config_error"
    beartype_active,    \* FALSE when @beartype is the identity (python -O)
    variant,            \* "explicit" or "implicit": the class constructed
    meta_objective,     \* self.meta_objective / hparams.meta_objective
    min_train_samples,  \* hparams.min_train_samples
    training,           \* self.training
    caller,             \* the entry point of the call in progress
    batch_keys,         \* the channel names of the batch x
    S,                  \* samples extent of the batch x
    z_len,              \* samples extent of the aggregator's output
    grad_ambient,       \* gradient tracking as the caller left it
    mode,               \* forward's local `mode` (line 82)
    train_indices,      \* forward's local train_indices
    x_train,            \* returned by forward
    x_nexttoken,        \* returned by forward
    z,                  \* the trimmed context returned by forward
    preds_train,        \* returned by forward
    preds_nexttoken,    \* returned by forward
    trace,              \* the aggregator, predictor and self.train calls
                        \* forward made and the error it raised, in order
    outcome,            \* how the call ended
    logged,             \* the self.log calls of the step, in order
    ret,                \* the step's return value: <<>> is None
    logger_attached,    \* self.logger is not None
    dataset,            \* what the datamodule serves: its channels, its
                        \* has_ood attribute, its samples extent and the
                        \* loss of every task at every position
    diag                \* the locals of a run of log_loss_vs_nsamples

module_vars == <<beartype_active, variant, meta_objective, min_train_samples>>
call_vars == <<caller, batch_keys, S, z_len, grad_ambient, mode, train_indices,
               x_train, x_nexttoken, z, preds_train, preds_nexttoken, trace,
               outcome, logged, ret>>
diag_vars == <<logger_attached, dataset, diag>>
vars == <<pc, module_vars, training, call_vars, diag_vars>>

----------------------------------------------------------------------------
(* Python and torch primitives *)

Min2(a, b) == IF a < b THEN a ELSE b
Max2(a, b) == IF a > b THEN a ELSE b
Abs(a) == IF a < 0 THEN -a ELSE a

\* torch.arange(n): the positions 0 .. n-1.
Arange(n) == [k \in 1..n |-> k - 1]

\* A slice bound as Python resolves it against a length n.
SliceBound(i, n) == IF i < 0 THEN Max2(i + n, 0) ELSE Min2(i, n)

\* s[a:b]
PySlice(s, a, b) ==
    LET lo == SliceBound(a, Len(s))
        hi == SliceBound(b, Len(s))
    IN  IF lo < hi THEN SubSeq(s, lo + 1, hi) ELSE << >>

\* s[a:]
PySliceFrom(s, a) == PySlice(s, a, Len(s))

\* range(a, b) as a sequence
PyRange(a, b) == [k \in 1..Max2(b - a, 0) |-> a + k - 1]

\* s[idx] for a list of non-negative indices idx
Gather(s, idx) == [k \in 1..Len(idx) |-> s[idx[k] + 1]]

\* The values random.randint(a, b) can return.
RandInt(a, b) == a..b

RECURSIVE SumSeq(_)
SumSeq(s) == IF s = << >> THEN 0 ELSE Head(s) + SumSeq(Tail(s))

\* Tensor.mean() as the exact fraction sum / n; n = 0 is the NaN of an empty tensor.
Mean(t) == [sum |-> SumSeq(t), n |-> Len(t)]

----------------------------------------------------------------------------
(* Windowing of MetaOptimizerExplicit.forward *)

MetaObjective == {"train", "prequential"}

\* The trim as it would be without dropping the last context: z[m:].
ZTrimNoDrop(zfull, m) == PySliceFrom(zfull, m)
\* z[min_train_samples : -1]
ZTrim(zfull, m) == PySlice(zfull, m, -1)

\* The range as it would be shifted by one: range(m, len(x)).
TrainRangeShifted(len, m) == PyRange(m, len)
\* range(min_train_samples - 1, len(x) - 1)
TrainRange(len, m) == PyRange(m - 1, len - 1)

\* All outcomes of [random.randint(0, i) for i in r].
RECURSIVE Draws(_)
Draws(r) ==
    IF r = << >> THEN {<< >>}
    ELSE {<<v>> \o t : v \in RandInt(0, Head(r)), t \in Draws(Tail(r))}

TrainIndexDraws(len, m) == Draws(TrainRange(len, m))

\* idx is one of the outcomes of the draws over range r.
IsDrawOver(idx, r) ==
    /\ Len(idx) = Len(r)
    /\ \A k \in 1..Len(r) : idx[k] \in RandInt(0, r[k])

\* The slice as it would be under the implicit variant's offset: x[m - 1:].
NextTokenSliceEarly(x, m) == PySliceFrom(x, m - 1)
\* x[min_train_samples :]
NextTokenSlice(x, m) == PySliceFrom(x, m)

\* The last input position contained in the prefix that z[k] summarises.
CtxPrefixEnd(k) == k - 1


----------------------------------------------------------------------------
(* External collaborators, by the interface the optimizers use *)

\* Predictor.forward(query, context): one prediction per query position, read
\* from the context paired with it (here: how many samples that context saw).
Predictor(query, ctx) ==
    [j \in 1..Len(query) |-> IF j <= Len(ctx) THEN ctx[j] ELSE 0]

\* ImplicitModel.forward(x): one next-token prediction per position, made from
\* the samples before it (here: the value of the previous sample).
ImplicitModel(x) == [j \in 1..Len(x) |-> Max2(x[j] - 1, 0)]

\* loss_function(target, preds): elementwise, never reduced (absolute error).
loss_function(target, preds) ==
    [j \in 1..Len(target) |-> Abs(target[j] - preds[j])]

----------------------------------------------------------------------------
(* Objective selection of MetaOptimizerExplicit.forward *)

\* One call made by forward, with self.training and the gradient mode in
\* force when it was made.
Ev(op, branch, tr, g) == [op |-> op, branch |-> branch, training |-> tr, grad |-> g]

\* The branch evaluated first (optimized) and second (monitored).
BranchOrder(obj) ==
    IF obj = "train" THEN <<"train", "nexttoken">> ELSE <<"nexttoken", "train">>

\* self.train(False): the value of self.training afterwards.
EvalSwitch(tr) == FALSE

\* The gradient mode of the monitored branch if the scope were left out.
InferenceScopeMissing(g) == g
\* with torch.inference_mode(): the gradient mode inside the scope.
InferenceScope(g) == FALSE

\* The value of self.training if line 95 were left out.
RestoreModeSkipped(saved, cur) == cur
\* self.train(mode): the value of self.training afterwards.
RestoreMode(saved, cur) == saved

\* MetaOptimizerExplicit.forward on a batch of x_len samples, with an
\* aggregator output of zl positions, the index draws idx, and the predictor
\* raising on its first or second call when fail says so.
ForwardExplicit(x_len, zl, idx, fail, obj, m, tr0, g) ==
    LET x      == Arange(x_len)
        zt     == ZTrim(Arange(zl), m)
        xt     == Gather(x, idx)
        xn     == NextTokenSlice(x, m)
        saved  == tr0
        pre    == <<Ev("aggregator", "-", tr0, g)>>
        order  == BranchOrder(obj)
        Q(b)   == IF b = "train" THEN xt ELSE xn
        tr1    == EvalSwitch(tr0)
        g1     == InferenceScope(g)
        call1  == Ev("predictor", order[1], tr0, g)
        switch == Ev("train(False)", "-", tr1, g)
        call2  == Ev("predictor", order[2], tr1, g1)
        tr2    == RestoreMode(saved, tr1)
        locals == [mode |-> saved, train_indices |-> idx, x_train |-> xt,
                   x_nexttoken |-> xn, z |-> zt]
        P(b)   == Predictor(Q(b), zt)
    IN  IF obj \notin MetaObjective
        THEN locals @@ [outcome |-> "invalid_objective", training |-> tr0,
                        trace |-> pre \o <<Ev("raise ValueError", "-", tr0, g)>>,
                        preds_train |-> << >>, preds_nexttoken |-> << >>]
        ELSE IF fail = "first"
        THEN locals @@ [outcome |-> "predictor_error", training |-> tr0,
                        trace |-> pre \o <<call1, Ev("raise", order[1], tr0, g)>>,
                        preds_train |-> << >>, preds_nexttoken |-> << >>]
        ELSE IF fail = "second"
        THEN locals @@ [outcome |-> "predictor_error", training |-> tr1,
                        trace |-> pre \o <<call1, switch, call2,
                                          Ev("raise", order[2], tr1, g1)>>,
                        preds_train |-> IF order[1] = "train" THEN P("train") ELSE << >>,
                        preds_nexttoken |->
                            IF order[1] = "nexttoken" THEN P("nexttoken") ELSE << >>]
        ELSE locals @@ [outcome |-> "returned", training |-> tr2,
                        trace |-> pre \o <<call1, switch, call2,
                                          Ev("train(mode)", "-", tr2, g)>>,
                        preds_train |-> P("train"),
                        preds_nexttoken |-> P("nexttoken")]

----------------------------------------------------------------------------
(* MetaOptimizerImplicit.forward *)

\* The slice as it would be under the explicit variant's offset: t[m:].
ImplicitSliceLate(t, m) == PySliceFrom(t, m)
\* [min_train_samples - 1 :]
ImplicitSlice(t, m) == PySliceFrom(t, m - 1)

ForwardImplicit(x_len, fail, m, tr0, g) ==
    LET x      == Arange(x_len)
        call   == Ev("model", "nexttoken", tr0, g)
        locals == [mode |-> tr0, train_indices |-> << >>, x_train |-> << >>,
                   z |-> << >>, preds_train |-> << >>, training |-> tr0]
    IN  IF fail = "first"
        THEN locals @@ [outcome |-> "predictor_error",
                        trace |-> <<call, Ev("raise", "nexttoken", tr0, g)>>,
                        x_nexttoken |-> << >>, preds_nexttoken |-> << >>]
        ELSE locals @@ [outcome |-> "returned", trace |-> <<call>>,
                        x_nexttoken |-> ImplicitSlice(x, m),
                        preds_nexttoken |-> ImplicitSlice(ImplicitModel(x), m)]

----------------------------------------------------------------------------
(* losses_and_metrics *)

\* The prefix with the two names exchanged.
ModeNameInverted(tr) == IF tr THEN "val_tasks" ELSE "train_tasks"
\* "train_tasks" if self.training else "val_tasks"
ModeName(tr) == IF tr THEN "train_tasks" ELSE "val_tasks"

\* The selection with the two branches exchanged.
SelectLossInverted(obj, loss_train, loss_nexttoken) ==
    IF obj = "train" THEN loss_nexttoken ELSE loss_train
\* loss = loss_train if self.meta_objective == "train" else loss_nexttoken
SelectLoss(obj, loss_train, loss_nexttoken) ==
    IF obj = "train" THEN loss_train ELSE loss_nexttoken

LogEntry(name, key, value) == [mode |-> name, key |-> key, value |-> value]

\* MetaOptimizerExplicit.losses_and_metrics: the scalar returned and the
\* self.log calls made.
LossesAndMetricsExplicit(obj, tr, f) ==
    LET loss_train     == Mean(loss_function(f.x_train, f.preds_train))
        loss_nexttoken == Mean(loss_function(f.x_nexttoken, f.preds_nexttoken))
    IN  [loss |-> SelectLoss(obj, loss_train, loss_nexttoken),
         logged |-> <<LogEntry(ModeName(tr), "loss_train", loss_train),
                      LogEntry(ModeName(tr), "loss_nexttoken", loss_nexttoken)>>]

\* MetaOptimizerImplicit.losses_and_metrics
LossesAndMetricsImplicit(tr, f) ==
    LET loss == Mean(loss_function(f.x_nexttoken, f.preds_nexttoken))
    IN  [loss |-> loss,
         logged |-> <<LogEntry(ModeName(tr), "loss_nexttoken", loss)>>]

----------------------------------------------------------------------------
(* The module's life: construction, then steps driven by the trainer *)

Variants == {"explicit", "implicit"}
ObjectiveArgs == MetaObjective \cup {"foo"}
Fails == {"none", "first", "second"}

\* The samples extent an aggregator may give its output for an input of x_len
\* samples: x_len (same extent as the input) or x_len + 1 (one context per
\* prefix, from the empty one to the full one, as lines 65-67 describe).
AggregatorExtents(x_len) == {x_len, x_len + 1}

\* The channels a batch may carry.
RegularKeys == {"x", "y"}
KeySets == {RegularKeys,
            RegularKeys \cup {"x_ood", "y_ood"},
            RegularKeys \cup {"x_ood", "y_ood", "y_pred"}}

\* The keys log_loss_vs_nsamples reads from every batch (line 151).
AllXKeys == {"x", "y", "x_ood", "y_ood", "y_pred"}

\* No dataset attached, and log_loss_vs_nsamples not running.
NoDataset ==
    [keys |-> RegularKeys, has_ood |-> FALSE, samples |-> 0, task_loss |-> << >>]

\* The locals of log_loss_vs_nsamples before its first statement: the three
\* accumulators are None (unset, ood_unset), the lists are empty.
DiagOff ==
    [pc |-> "off", arg |-> "-", taken |-> 0,
     unset |-> TRUE, n_sample_loss_train |-> << >>,
     n_sample_loss_nexttoken |-> << >>,
     ood_unset |-> TRUE, n_sample_loss_ood |-> << >>,
     y_pred |-> << >>, loss_ood_all |-> 0,
     i |-> 0, logged |-> << >>, raised |-> "-"]

NoDiagnostics ==
    /\ logger_attached = TRUE
    /\ dataset = NoDataset
    /\ diag = DiagOff

NoCall ==
    /\ caller = "-" /\ batch_keys = {} /\ S = 0 /\ z_len = 0
    /\ grad_ambient = TRUE /\ mode = TRUE
    /\ train_indices = << >> /\ x_train = << >> /\ x_nexttoken = << >>
    /\ z = << >> /\ preds_train = << >> /\ preds_nexttoken = << >>
    /\ trace = << >> /\ outcome = "-" /\ logged = << >> /\ ret = << >>

Init ==
    /\ pc = "new"
    /\ beartype_active \in BOOLEAN
    /\ variant = "-"
    /\ meta_objective = "-"
    /\ min_train_samples = 1
    /\ training = TRUE
    /\ NoCall
    /\ NoDiagnostics

\* __init__ behind @beartype: an objective outside the Literal is rejected
\* while the decorator is active; otherwise the fields are stored as given.
Construct(v, o, m) ==
    /\ pc = "new"
    /\ v = "implicit" => o = "prequential"
    /\ IF v = "explicit" /\ beartype_active /\ o \notin MetaObjective
       THEN /\ pc' = "config_error"
            /\ caller' = "__init__"
            /\ outcome' = "invalid_objective"
            /\ trace' = <<Ev("raise BeartypeCallHintParamViolation", "-", TRUE, TRUE)>>
            /\ UNCHANGED <<module_vars, training, batch_keys, S, z_len,
                           grad_ambient, mode, train_indices, x_train,
                           x_nexttoken, z, preds_train, preds_nexttoken,
                           logged, ret, diag_vars>>
       ELSE /\ pc' = "idle"
            /\ variant' = v
            /\ meta_objective' = o
            /\ min_train_samples' = m
            /\ training' = TRUE
            /\ UNCHANGED <<beartype_active, call_vars, diag_vars>>

\* The trainer puts the module in training or evaluation mode between steps
\* (nn.Module.train / eval, inherited through LightningModule).
DriverSetMode(b) ==
    /\ pc = "idle"
    /\ b # training
    /\ training' = b
    /\ UNCHANGED <<pc, module_vars, call_vars, diag_vars>>

\* self.forward(x), for the class constructed.
Forward(x_len, zl, idx, fail, g) ==
    IF variant = "explicit"
    THEN ForwardExplicit(x_len, zl, idx, fail, meta_objective,
                         min_train_samples, training, g)
    ELSE ForwardImplicit(x_len, fail, min_train_samples, training, g)

\* self.losses_and_metrics(...), for the class constructed, after forward
\* returned f and left self.training = f.training.
LossesAndMetrics(f) ==
    IF variant = "explicit"
    THEN LossesAndMetricsExplicit(meta_objective, f.training, f)
    ELSE LossesAndMetricsImplicit(f.training, f)

\* The inputs of one forward call that the class constructed can tell apart.
CallInputs(x_len, zl, idx, fail) ==
    IF variant = "explicit"
    THEN /\ zl \in AggregatorExtents(x_len)
         /\ IsDrawOver(idx, TrainRange(x_len, min_train_samples))
         /\ fail \in Fails
    ELSE /\ zl = x_len
         /\ idx = << >>
         /\ fail \in {"none", "first"}

SetCall(c, keys, x_len, zl, g, f) ==
    /\ pc' = "done"
    /\ caller' = c
    /\ batch_keys' = keys
    /\ S' = x_len
    /\ z_len' = zl
    /\ grad_ambient' = g
    /\ mode' = f.mode
    /\ train_indices' = f.train_indices
    /\ x_train' = f.x_train
    /\ x_nexttoken' = f.x_nexttoken
    /\ z' = f.z
    /\ preds_train' = f.preds_train
    /\ preds_nexttoken' = f.preds_nexttoken
    /\ trace' = f.trace
    /\ outcome' = f.outcome
    /\ training' = f.training
    /\ UNCHANGED module_vars

\* training_step: forward, then losses_and_metrics, whose scalar is returned.
\* The trainer runs it with gradient tracking enabled.
TrainingStep(x_len, zl, idx, fail) ==
    /\ pc = "idle"
    /\ CallInputs(x_len, zl, idx, fail)
    /\ \E f \in {Forward(x_len, zl, idx, fail, TRUE)} :
        /\ SetCall("training_step", RegularKeys, x_len, zl, TRUE, f)
        /\ IF f.outcome = "returned"
           THEN \E lm \in {LossesAndMetrics(f)} :
                    /\ logged' = lm.logged
                    /\ ret' = <<lm.loss>>
           ELSE /\ logged' = << >>
                /\ ret' = << >>
    /\ UNCHANGED diag_vars

\* validation_step: forward, then losses_and_metrics, whose scalar is dropped.
\* The trainer's evaluation loop runs it with gradient tracking disabled.
ValidationStep(x_len, zl, idx, fail) ==
    /\ pc = "idle"
    /\ CallInputs(x_len, zl, idx, fail)
    /\ \E f \in {Forward(x_len, zl, idx, fail, FALSE)} :
        /\ SetCall("validation_step", RegularKeys, x_len, zl, FALSE, f)
        /\ logged' = IF f.outcome = "returned"
                     THEN LossesAndMetrics(f).logged ELSE << >>
        /\ ret' = << >>
    /\ UNCHANGED diag_vars

\* One pass of the batch loop of log_loss_vs_nsamples, up to the forward call:
\* the explicit variant first copies the five channels of all_x out of the
\* batch (a missing one is a KeyError), then both call forward under the
\* method's torch.inference_mode().
LogLossPass(keys, x_len, zl, idx, fail) ==
    /\ pc = "idle"
    /\ keys \in KeySets
    /\ CallInputs(x_len, zl, idx, fail)
    /\ IF variant = "explicit" /\ ~(AllXKeys \subseteq keys)
       THEN /\ pc' = "done"
            /\ caller' = "log_loss_vs_nsamples"
            /\ batch_keys' = keys
            /\ S' = x_len
            /\ grad_ambient' = FALSE
            /\ outcome' = "key_error"
            /\ trace' = <<Ev("raise KeyError", "-", training, FALSE)>>
            /\ UNCHANGED <<module_vars, training, z_len, mode, train_indices,
                           x_train, x_nexttoken, z, preds_train,
                           preds_nexttoken, logged, ret>>
       ELSE /\ \E f \in {Forward(x_len, zl, idx, fail, FALSE)} :
                    SetCall("log_loss_vs_nsamples", keys, x_len, zl, FALSE, f)
            /\ UNCHANGED <<logged, ret>>

\* That pass on its own, whatever the method does with its results.
LogLossBatch(keys, x_len, zl, idx, fail) ==
    /\ LogLossPass(keys, x_len, zl, idx, fail)
    /\ UNCHANGED diag_vars

\* The step's results are dropped and the trainer fetches the next batch.
NextBatch ==
    /\ pc = "done"
    /\ pc' = "idle"
    /\ caller' = "-" /\ batch_keys' = {} /\ S' = 0 /\ z_len' = 0
    /\ grad_ambient' = TRUE /\ mode' = TRUE
    /\ train_indices' = << >> /\ x_train' = << >> /\ x_nexttoken' = << >>
    /\ z' = << >> /\ preds_train' = << >> /\ preds_nexttoken' = << >>
    /\ trace' = << >> /\ outcome' = "-" /\ logged' = << >> /\ ret' = << >>
    /\ UNCHANGED <<module_vars, training, diag_vars>>

Next ==
    \/ \E v \in Variants, o \in ObjectiveArgs, m \in 1..MaxM : Construct(v, o, m)
    \/ \E b \in BOOLEAN : DriverSetMode(b)
    \/ /\ pc = "idle"
       /\ \E x_len \in 0..MaxS, fail \in Fails :
            \E zl \in AggregatorExtents(x_len),
               idx \in TrainIndexDraws(x_len, min_train_samples) \cup {<< >>} :
                TrainingStep(x_len, zl, idx, fail)
    \/ /\ pc = "idle"
       /\ \E x_len \in 0..MaxS, fail \in Fails, keys \in KeySets :
            \E zl \in AggregatorExtents(x_len),
               idx \in TrainIndexDraws(x_len, min_train_samples) \cup {<< >>} :
                LogLossBatch(keys, x_len, zl, idx, fail)
    \/ /\ pc = "idle"
       /\ \E x_len \in 0..MaxS, fail \in Fails :
            \E zl \in AggregatorExtents(x_len),
               idx \in TrainIndexDraws(x_len, min_train_samples) \cup {<< >>} :
                ValidationStep(x_len, zl, idx, fail)
    \/ NextBatch

Spec == Init /\ [][Next]_vars

----------------------------------------------------------------------------
(* The worked example of the specification: S = 10, min_train_samples = 3, *)
(* objective "train", a module in training mode driven by training_step,   *)
(* with an aggregator that returns one context per prefix (11 positions).  *)

InitExample ==
    /\ pc = "idle"
    /\ beartype_active = TRUE
    /\ variant = "explicit"
    /\ meta_objective = "train"
    /\ min_train_samples = 3
    /\ training = TRUE
    /\ NoCall
    /\ NoDiagnostics

NextExample ==
    \/ /\ pc = "idle"
       /\ \E idx \in TrainIndexDraws(10, min_train_samples) :
                TrainingStep(10, 11, idx, "none")
    \/ NextBatch

SpecExample == InitExample /\ [][NextExample]_vars

----------------------------------------------------------------------------
(* log_loss_vs_nsamples, the diagnostic of on_train_end, statement by       *)
(* statement.  The dataset holds num_tasks tasks; a batch is the next k of  *)
(* them, so the loss tensor of a batch has one row per window position and  *)
(* one column per task of the batch.  The loss of task t at the target      *)
(* position p is dataset.task_loss[t][p + 1], whatever batch t arrives in.  *)
(* The predictor returns a dict, as forward's return annotation declares.   *)

\* a / b as torch computes it, kept exact.
Frac(n, d) == [num |-> n, den |-> d]
FracAdd(a, b) == [num |-> a.num * b.den + b.num * a.den, den |-> a.den * b.den]
FracEq(a, b) == a.num * b.den = b.num * a.den

\* len(dl.dataset)
NumTasks == Len(dataset.task_loss)

\* One entry of loss_function(target, preds): task t, target position p; and
\* the same for the out-of-distribution channels of that position.
TaskLossAt(t, p) == dataset.task_loss[t][p + 1]
OodLossAt(t, p) == dataset.task_loss[t][p + 1] + 1
LossAt(channel, t, p) ==
    IF channel = "ood" THEN OodLossAt(t, p) ELSE TaskLossAt(t, p)

\* loss.sum(dim=-1) / num_tasks for the batch of the k tasks after the first
\* `taken`: one value per window position.
BatchCurve(channel, target, taken, k) ==
    [j \in 1..Len(target) |->
        Frac(SumSeq([c \in 1..k |-> LossAt(channel, taken + c, target[j])]),
             NumTasks)]

\* `acc = cur` on the first batch, `acc += cur` afterwards.
Accumulate(unset, acc, cur) ==
    IF unset THEN cur ELSE [j \in 1..Len(acc) |-> FracAdd(acc[j], cur[j])]

\* The datasets the run is checked on: any population of 1..MaxTasks tasks,
\* batches of 1..DiagMaxS samples; a dataset that declares has_ood serves the
\* OOD channels.
Populations(s) ==
    UNION {[1..n -> [1..s -> 0..MaxLoss]] : n \in 1..MaxTasks}
Datasets ==
    UNION {{d \in [keys : KeySets, has_ood : BOOLEAN, samples : {s},
                   task_loss : Populations(s)] :
                d.has_ood => "x_ood" \in d.keys} : s \in 1..DiagMaxS}

\* Lines 136-151 and 478-488: return at once without a logger; otherwise pick
\* the dataloader and start the batch loop with empty accumulators.
DiagStart(arg) ==
    /\ pc = "idle"
    /\ diag.pc = "off"
    /\ diag' = IF logger_attached
               THEN [diag EXCEPT !.pc = "loop", !.arg = arg]
               ELSE [diag EXCEPT !.pc = "skipped", !.arg = arg]
    /\ UNCHANGED <<pc, module_vars, training, call_vars, logger_attached,
                   dataset>>

\* The accumulators after the statements that follow forward in the loop body
\* of the explicit variant (lines 165-195).
AfterBatchExplicit(k) ==
    LET train == BatchCurve("regular", x_train', diag.taken, k)
        next  == BatchCurve("regular", x_nexttoken', diag.taken, k)
        ood   == BatchCurve("ood", x_nexttoken', diag.taken, k)
        d1 == [diag EXCEPT
                !.taken = @ + k,
                !.y_pred = @ \o <<"tensor", "dict">>,
                !.unset = FALSE,
                !.n_sample_loss_train = Accumulate(diag.unset, @, train),
                !.n_sample_loss_nexttoken = Accumulate(diag.unset, @, next)]
    IN  IF dataset.has_ood
        THEN [d1 EXCEPT
                !.loss_ood_all = @ + 1,
                !.ood_unset = FALSE,
                !.n_sample_loss_ood = Accumulate(diag.ood_unset, @, ood)]
        ELSE d1

\* The same for the implicit variant (lines 492-498).
AfterBatchImplicit(k) ==
    [diag EXCEPT
        !.taken = @ + k,
        !.unset = FALSE,
        !.n_sample_loss_nexttoken =
            Accumulate(diag.unset, @,
                       BatchCurve("regular", x_nexttoken', diag.taken, k))]

\* One pass of the batch loop on the next k tasks (lines 153-195, 489-498):
\* what forward or the copy into all_x raises ends the method.
DiagBatch(k, zl, idx, fail) ==
    /\ diag.pc = "loop"
    /\ k >= 1
    /\ diag.taken + k <= NumTasks
    /\ LogLossPass(dataset.keys, dataset.samples, zl, idx, fail)
    /\ diag' = IF outcome' # "returned"
               THEN [diag EXCEPT !.pc = "raised", !.raised = outcome']
               ELSE IF variant = "explicit"
                    THEN AfterBatchExplicit(k)
                    ELSE AfterBatchImplicit(k)
    /\ UNCHANGED <<logger_attached, dataset>>

\* plot_top_k_losses(k=16, step=100) reads loss_nexttoken_all[i] for
\* i = 0, 100, .., 900 and takes the 16 largest losses of each row.
TopKFits == Len(diag.n_sample_loss_nexttoken) > 900 /\ NumTasks >= 16

\* The dataloader is exhausted.  Explicit (lines 197-242): torch.cat of every
\* list of all_x, where the y_pred list holds the dicts appended at line 165
\* next to the batches' tensors; torch.cat of the three loss lists, where
\* loss_ood_all is empty unless has_ood; plot_top_k_losses.  Implicit
\* (line 500): len() of the accumulator.
DiagEndLoop ==
    /\ pc = "idle"
    /\ diag.pc = "loop"
    /\ diag.taken = NumTasks
    /\ diag' =
        IF variant = "explicit"
        THEN IF \E e \in 1..Len(diag.y_pred) : diag.y_pred[e] = "dict"
             THEN [diag EXCEPT !.pc = "raised", !.raised = "TypeError"]
             ELSE IF diag.y_pred = << >> \/ diag.loss_ood_all = 0
             THEN [diag EXCEPT !.pc = "raised", !.raised = "RuntimeError"]
             ELSE IF ~TopKFits
             THEN [diag EXCEPT !.pc = "raised", !.raised = "IndexError"]
             ELSE [diag EXCEPT !.pc = "log"]
        ELSE IF diag.unset
             THEN [diag EXCEPT !.pc = "raised", !.raised = "TypeError"]
             ELSE [diag EXCEPT !.pc = "log"]
    /\ UNCHANGED <<pc, module_vars, training, call_vars, logger_attached,
                   dataset>>

\* n_samples of the point at index i (lines 248 and 501).
NSamples(i) ==
    IF variant = "explicit"
    THEN i + min_train_samples
    ELSE i + min_train_samples - 1

\* The length the logging loop runs over (lines 247 and 500).
CurveLen ==
    IF variant = "explicit"
    THEN Len(diag.n_sample_loss_train)
    ELSE Len(diag.n_sample_loss_nexttoken)

\* One pass of the logging loop (lines 247-282, 500-505).
DiagLogPoint ==
    /\ pc = "idle"
    /\ diag.pc = "log"
    /\ diag.i < CurveLen
    /\ diag' = [diag EXCEPT
        !.i = @ + 1,
        !.logged = Append(@,
            [n_samples |-> NSamples(diag.i),
             mode |-> diag.arg,
             train |-> IF variant = "explicit"
                       THEN <<diag.n_sample_loss_train[diag.i + 1]>>
                       ELSE << >>,
             nexttoken |-> diag.n_sample_loss_nexttoken[diag.i + 1],
             ood |-> IF variant = "explicit" /\ dataset.has_ood
                     THEN <<diag.n_sample_loss_ood[diag.i + 1]>>
                     ELSE << >>])]
    /\ UNCHANGED <<pc, module_vars, training, call_vars, logger_attached,
                   dataset>>

\* The logging loop is over and the method returns.
DiagFinish ==
    /\ pc = "idle"
    /\ diag.pc = "log"
    /\ diag.i = CurveLen
    /\ diag' = [diag EXCEPT !.pc = "done"]
    /\ UNCHANGED <<pc, module_vars, training, call_vars, logger_attached,
                   dataset>>

\* A constructed module at the end of training, with any dataset attached.
InitDiag ==
    /\ pc = "idle"
    /\ beartype_active = TRUE
    /\ variant \in Variants
    /\ meta_objective \in (IF variant = "explicit" THEN MetaObjective
                           ELSE {"prequential"})
    /\ min_train_samples \in 1..MaxM
    /\ training = TRUE
    /\ NoCall
    /\ logger_attached \in BOOLEAN
    /\ dataset \in Datasets
    /\ diag = DiagOff

NextDiag ==
    \/ \E arg \in {"train_tasks", "val_tasks"} : DiagStart(arg)
    \/ /\ pc = "idle"
       /\ diag.pc = "loop"
       /\ \E k \in 1..MaxTasks, fail \in Fails,
             zl \in AggregatorExtents(dataset.samples),
             idx \in TrainIndexDraws(dataset.samples, min_train_samples)
                        \cup {<< >>} :
                DiagBatch(k, zl, idx, fail)
    \/ NextBatch
    \/ DiagEndLoop
    \/ DiagLogPoint
    \/ DiagFinish

SpecDiag == InitDiag /\ [][NextDiag]_vars

----------------------------------------------------------------------------
(* Properties *)

Returned == pc = "done" /\ outcome = "returned"
ExplicitReturned == Returned /\ variant = "explicit"
ImplicitReturned == Returned /\ variant = "implicit"

\* The positions in the trace of the calls named op.
CallsOf(op) == {i \in 1..Len(trace) : trace[i].op = op}

\* The branch forward optimizes, and the one it only monitors.
Optimized == IF meta_objective = "train" THEN "train" ELSE "nexttoken"
Monitored == IF meta_objective = "train" THEN "nexttoken" ELSE "train"

\* The two predictor calls of forward lie on either side of its one switch to
\* evaluation mode: the optimized branch before it, under gradient mode g_opt,
\* the monitored branch after it, in evaluation mode and without gradients.
DualBranchSequenced(g_opt) ==
    \E i, s, j \in 1..Len(trace) :
        /\ i < s /\ s < j
        /\ CallsOf("predictor") = {i, j}
        /\ CallsOf("train(False)") = {s}
        /\ trace[i].branch = Optimized
        /\ trace[i].grad = g_opt
        /\ trace[j].branch = Monitored
        /\ trace[j].training = FALSE
        /\ trace[j].grad = FALSE

\* C1 as stated: in every explicit forward that returns, the optimized branch
\* runs first with gradient tracking enabled, the monitored branch after the
\* switch to evaluation mode and without gradients.
C1_GradEnabledOnOptimized == ExplicitReturned => DualBranchSequenced(TRUE)

\* C1 amended: in every explicit forward that returns, the optimized branch
\* runs first, outside any no-gradient scope of forward, so with gradient
\* tracking as the caller left it (enabled under training_step, disabled under
\* validation and under log_loss_vs_nsamples); the monitored branch runs
\* strictly after the switch to evaluation mode, in evaluation mode and
\* without gradients, for either objective and either initial training flag.
C1_BranchesSequenced ==
    ExplicitReturned =>
        /\ DualBranchSequenced(grad_ambient)
        /\ caller = "training_step" => DualBranchSequenced(TRUE)

C1_Witness ==
    /\ ExplicitReturned
    /\ caller = "training_step"
    /\ meta_objective = "prequential"
    /\ mode = TRUE
    /\ Len(x_nexttoken) >= 2

\* C2: a forward call that returns normally leaves self.training as it found
\* it, from whichever idle state the step started (so after any sequence of
\* earlier calls).
C2_ModeRestored ==
    [][(pc = "idle" /\ pc' = "done" /\ outcome' = "returned")
          => training' = training]_vars

C2_Witness ==
    /\ ExplicitReturned
    /\ mode = TRUE
    /\ training = TRUE
    /\ \E i \in CallsOf("train(False)") : trace[i].training = FALSE
    /\ caller = "validation_step"

\* C3: after a forward call in which the predictor raised, self.training is
\* the value it had when the call began.
C3_ModeRestoredOnError ==
    (pc = "done" /\ outcome = "predictor_error") => training = mode

\* C4: when an invalid objective is rejected, no aggregator call, no index
\* draw and no predictor call came before the error.
C4_FailsBeforeComputation ==
    outcome = "invalid_objective" =>
        /\ \A i \in 1..Len(trace) :
                trace[i].op \notin {"aggregator", "predictor", "model"}
        /\ train_indices = << >>

\* C5: for S > m >= 1 the next-token positions are consecutive and end at
\* S - 1: m .. S-1 (S - m of them) in the explicit variant, m-1 .. S-1
\* (S - m + 1 of them) in the implicit one; the explicit train_indices are as
\* many, and train_indices[i] lies in [0, next_token_indices[i]].
C5_WindowShape ==
    (Returned /\ S > min_train_samples) =>
        /\ variant = "explicit" =>
            /\ Len(x_nexttoken) = S - min_train_samples
            /\ \A k \in 1..Len(x_nexttoken) :
                    x_nexttoken[k] = min_train_samples + k - 1
            /\ Len(train_indices) = Len(x_nexttoken)
            /\ \A k \in 1..Len(train_indices) :
                    0 <= train_indices[k] /\ train_indices[k] <= x_nexttoken[k]
        /\ variant = "implicit" =>
            /\ Len(x_nexttoken) = S - min_train_samples + 1
            /\ \A k \in 1..Len(x_nexttoken) :
                    x_nexttoken[k] = min_train_samples + k - 2
        /\ x_nexttoken[Len(x_nexttoken)] = S - 1

C5_Witness ==
    /\ ImplicitReturned
    /\ min_train_samples = 2
    /\ S >= 4

\* C6 as stated: with an aggregator output of the input's extent S, the
\* trimmed context, the train queries and the next-token queries returned by
\* forward have the same number of positions.
C6_AlignedSameExtent ==
    (ExplicitReturned /\ S > min_train_samples /\ z_len = S) =>
        /\ Len(z) = Len(x_train)
        /\ Len(z) = Len(x_nexttoken)

\* C6 amended: for S > m the train and next-token queries have S - m
\* positions each; the trimmed context has as many exactly when the
\* aggregator output has S + 1 positions (zero context to full context), and
\* one fewer, S - m - 1, when it has the input's extent S.
C6_AlignedExtraContext ==
    (ExplicitReturned /\ S > min_train_samples) =>
        /\ Len(x_train) = S - min_train_samples
        /\ Len(x_nexttoken) = S - min_train_samples
        /\ z_len = S + 1 => Len(z) = S - min_train_samples
        /\ z_len = S => Len(z) = S - min_train_samples - 1

C6_Witness ==
    /\ ExplicitReturned
    /\ z_len = S + 1
    /\ Len(z) >= 2
    /\ Len(z) = Len(x_train)

\* C7: at every output position j the train query is a position inside the
\* prefix that the paired context z'[j] summarises, the next-token query is
\* the position right after that prefix, and the two are never the same.
C7_TrainSeenNextUnseen ==
    ExplicitReturned =>
        /\ \A j \in 1..Min2(Len(z), Len(x_train)) :
                /\ 0 <= x_train[j]
                /\ x_train[j] <= CtxPrefixEnd(z[j])
                /\ x_nexttoken[j] = CtxPrefixEnd(z[j]) + 1
        /\ \A j \in 1..Len(x_train) : x_train[j] # x_nexttoken[j]

C7_Witness ==
    /\ ExplicitReturned
    /\ Len(z) >= 2
    /\ x_train[2] = CtxPrefixEnd(z[2])
    /\ x_train[1] = 0

\* The example's call: explicit, objective "train", S = 10, m = 3, returned
\* by training_step.
ExampleStep ==
    /\ ExplicitReturned
    /\ caller = "training_step"
    /\ meta_objective = "train"
    /\ S = 10
    /\ min_train_samples = 3

TrainIndicesBelowNextToken ==
    /\ Len(train_indices) = Len(x_nexttoken)
    /\ \A i \in 1..Len(train_indices) :
            0 <= train_indices[i] /\ train_indices[i] <= x_nexttoken[i]

\* C8 as stated: the example yields a trimmed context of length 8 over
\* positions 2..9, next-token positions [2, .., 9], train_indices[i] in
\* [0, next_token_indices[i]], and the train-branch mean as the step's scalar.
C8_ExampleAsStated ==
    ExampleStep =>
        /\ Len(z) = 8
        /\ z = <<2, 3, 4, 5, 6, 7, 8, 9>>
        /\ x_nexttoken = <<2, 3, 4, 5, 6, 7, 8, 9>>
        /\ TrainIndicesBelowNextToken
        /\ ret = <<Mean(loss_function(x_train, preds_train))>>

\* C8 amended: the example yields next-token positions [3, .., 9] (7 of
\* them), a trimmed context of length 7 over positions 3..9 of the 11
\* contexts the aggregator returns, 7 train_indices with train_indices[i] in
\* [0, next_token_indices[i]], and the train-branch mean as the scalar
\* returned by training_step.
C8_ExampleAsCoded ==
    ExampleStep =>
        /\ x_nexttoken = <<3, 4, 5, 6, 7, 8, 9>>
        /\ z_len = 11
        /\ z = <<3, 4, 5, 6, 7, 8, 9>>
        /\ TrainIndicesBelowNextToken
        /\ ret = <<Mean(loss_function(x_train, preds_train))>>

C8_Witness ==
    /\ ExampleStep
    /\ z_len = 11
    /\ train_indices = <<2, 0, 4, 1, 6, 3, 8>>

\* C9 as stated: every index in train_indices and every next-token position
\* of either variant is at least min_train_samples.
C9_NoIndexBelowFloor ==
    Returned =>
        /\ \A k \in 1..Len(train_indices) : train_indices[k] >= min_train_samples
        /\ \A k \in 1..Len(x_nexttoken) : x_nexttoken[k] >= min_train_samples

\* C9 amended: every next-token position is at least min_train_samples in the
\* explicit variant and at least min_train_samples - 1 in the implicit one,
\* and every trimmed context position is at least min_train_samples; the
\* train_indices are bounded below by 0 only (train_indices[k] is drawn from
\* [0, min_train_samples - 2 + k]).
C9_FloorOfNextToken ==
    Returned =>
        /\ variant = "explicit" =>
            /\ \A k \in 1..Len(x_nexttoken) : x_nexttoken[k] >= min_train_samples
            /\ \A k \in 1..Len(z) : z[k] >= min_train_samples
            /\ \A k \in 1..Len(train_indices) :
                    /\ train_indices[k] >= 0
                    /\ train_indices[k] <= min_train_samples - 2 + k
        /\ variant = "implicit" =>
            \A k \in 1..Len(x_nexttoken) : x_nexttoken[k] >= min_train_samples - 1

C9_Witness ==
    /\ ExplicitReturned
    /\ min_train_samples = 2
    /\ Len(train_indices) >= 2
    /\ train_indices[1] = 0
    /\ train_indices[2] = 2

\* The step calls whose forward returned.
StepReturned == Returned /\ caller \in {"training_step", "validation_step"}

\* The prefix of the step's log names, from the training flag at its start.
StartPrefix == IF mode THEN "train_tasks" ELSE "val_tasks"

TrainMean == Mean(loss_function(x_train, preds_train))
NextTokenMean == Mean(loss_function(x_nexttoken, preds_nexttoken))

\* C10 as stated: every step of every variant logs the train-branch and the
\* next-token-branch loss under the prefix of the mode it started in, and
\* returns exactly one scalar, the mean of the branch the objective names.
C10_BothLoggedOneReturned ==
    StepReturned =>
        /\ logged = <<LogEntry(StartPrefix, "loss_train", TrainMean),
                      LogEntry(StartPrefix, "loss_nexttoken", NextTokenMean)>>
        /\ ret = <<IF meta_objective = "train" THEN TrainMean ELSE NextTokenMean>>

\* C10 amended: every explicit step logs the train-branch and the
\* next-token-branch mean, and every implicit step the next-token mean only,
\* under "train_tasks" when the module was in training mode at the start of
\* the step and "val_tasks" otherwise; training_step returns exactly one
\* scalar, the train-branch mean for the explicit objective "train" and the
\* next-token mean otherwise; validation_step computes it and returns nothing.
C10_LoggedAndReturned ==
    StepReturned =>
        /\ variant = "explicit" =>
            logged = <<LogEntry(StartPrefix, "loss_train", TrainMean),
                       LogEntry(StartPrefix, "loss_nexttoken", NextTokenMean)>>
        /\ variant = "implicit" =>
            logged = <<LogEntry(StartPrefix, "loss_nexttoken", NextTokenMean)>>
        /\ caller = "training_step" =>
            ret = <<IF variant = "explicit" /\ meta_objective = "train"
                    THEN TrainMean ELSE NextTokenMean>>
        /\ caller = "validation_step" => ret = << >>

C10_Witness ==
    /\ StepReturned
    /\ variant = "explicit"
    /\ caller = "training_step"
    /\ meta_objective = "prequential"
    /\ mode = FALSE
    /\ TrainMean # NextTokenMean
    /\ Len(ret) = 1

\* ---- log_loss_vs_nsamples ----

\* A run of log_loss_vs_nsamples with a logger that ended, by returning or by
\* raising, without the predictor having failed.
DiagEnded ==
    /\ logger_attached
    /\ diag.pc \in {"done", "raised"}
    /\ diag.raised # "predictor_error"

\* The first context length of the curve, and the curve the whole population
\* gives at context length n: the sum over all tasks divided by their number.
FirstContext ==
    IF variant = "explicit" THEN min_train_samples ELSE min_train_samples - 1
PopulationMean(n) ==
    Frac(SumSeq([t \in 1..NumTasks |-> TaskLossAt(t, n)]), NumTasks)

\* The logged next-token curve has one point per context length from
\* FirstContext to the last sample, labelled consecutively, each the
\* population's mean whatever the batches were.
NextTokenCurveLogged ==
    /\ Len(diag.logged) = Max2(dataset.samples - FirstContext, 0)
    /\ \A i \in 1..Len(diag.logged) :
        /\ diag.logged[i].n_samples = FirstContext + i - 1
        /\ FracEq(diag.logged[i].nexttoken,
                  PopulationMean(FirstContext + i - 1))

\* The dataset serves every channel all_x reads and declares has_ood.
FullDataset == AllXKeys \subseteq dataset.keys /\ dataset.has_ood

\* The accumulator, once the dataloader is exhausted, is the population's mean
\* at every context length.
AccumulatorIsPopulationMean ==
    (diag.pc \in {"loop", "log", "done"} /\ diag.taken = NumTasks) =>
        /\ Len(diag.n_sample_loss_nexttoken)
                = Max2(dataset.samples - FirstContext, 0)
        /\ \A j \in 1..Len(diag.n_sample_loss_nexttoken) :
                FracEq(diag.n_sample_loss_nexttoken[j],
                       PopulationMean(FirstContext + j - 1))

\* The implicit variant logs that curve.
ImplicitCurveLogged ==
    (variant = "implicit" /\ DiagEnded) =>
        (diag.pc = "done" /\ NextTokenCurveLogged)

\* C11: a run of log_loss_vs_nsamples over any population, split into batches
\* in any way, logs the next-token curve of the whole population: one point
\* per context length, labelled consecutively from min_train_samples
\* (explicit) or min_train_samples - 1 (implicit), each the sum over all tasks
\* divided by the task count.  The explicit variant is given a dataset that
\* serves every channel it reads.
C11_CurveBatchInvariant ==
    (DiagEnded /\ (variant = "explicit" => FullDataset)) =>
        (diag.pc = "done" /\ NextTokenCurveLogged)

\* The dataset declares no OOD channels: has_ood is absent or false and the
\* batches carry the regular channels only.
NoOodDataset == ~dataset.has_ood /\ dataset.keys = RegularKeys

\* Every logged point carries the train and the next-token value and no OOD
\* value.
TrainAndNextTokenLogged ==
    /\ Len(diag.logged) = Max2(dataset.samples - FirstContext, 0)
    /\ \A i \in 1..Len(diag.logged) :
        /\ diag.logged[i].train # << >>
        /\ diag.logged[i].ood = << >>

\* C12: on a dataset without OOD channels the explicit log_loss_vs_nsamples
\* raises nothing: it runs to completion, logs the train and next-token
\* curves and leaves the OOD curve out.
C12_OodSkippedWithoutError ==
    (variant = "explicit" /\ NoOodDataset /\ DiagEnded) =>
        /\ diag.pc = "done"
        /\ diag.raised = "-"
        /\ TrainAndNextTokenLogged

============================================================================
